---- MODULE Spec2Model ----
(***************************************************************************)
(* Model of the two scripts of the repository:                             *)
(*   api_client_sample.py : APIClient (construction, _make_request and the *)
(*                          get/post/put/delete wrappers), APIException     *)
(*   sample_test.py       : add, multiply, divide, Calculator              *)
(*                                                                         *)
(* Text is modelled as a sequence of tokens (one-character strings where   *)
(* the code looks at characters, longer tokens elsewhere); "+" on text is  *)
(* \o.  An optional argument is a record; some = FALSE is None.            *)
(* A dict is the sequence of its items in insertion order.                 *)
(***************************************************************************)
EXTENDS Integers, Sequences, FiniteSets, TLC

VARIABLES
    ctor,       \* the arguments APIClient(...) was constructed with
    client,     \* the APIClient object: base_url, api_key, timeout, session_headers
    call,       \* the last dispatch call: its arguments, locals and how it ended
    history,    \* Calculator.history
    calcs,      \* every Calculator.calculate call made so far, in order
    lastcalc    \* the last Calculator.calculate call and how it ended

vars == <<ctor, client, call, history, calcs, lastcalc>>

clientVars == <<ctor, client, call>>
calcVars == <<history, calcs, lastcalc>>

----------------------------------------------------------------------------
(* Bounds of the model *)

MaxBase == 4        \* longest base_url given to the constructor, in characters
MaxPath == 2        \* longest endpoint given to a call, in characters
MaxHdrs == 2        \* most entries in a call's headers argument
MaxCalls == 3       \* most Calculator.calculate calls in a run

----------------------------------------------------------------------------
(* Text helpers *)

Strs(alphabet, n) == UNION {[1..k -> alphabet] : k \in 0..n}

\* str.rstrip('/'): every trailing slash goes
RECURSIVE RStrip(_)
RStripOne(s) ==
    IF s # <<>> /\ s[Len(s)] = "/" THEN SubSeq(s, 1, Len(s) - 1) ELSE s
RStrip(s) ==
    IF s # <<>> /\ s[Len(s)] = "/" THEN RStrip(SubSeq(s, 1, Len(s) - 1)) ELSE s

\* str.lstrip('/'): every leading slash goes
RECURSIVE LStrip(_)
LStrip(s) ==
    IF s # <<>> /\ s[1] = "/" THEN LStrip(SubSeq(s, 2, Len(s))) ELSE s

Digit == <<"0", "1", "2", "3", "4", "5", "6", "7", "8", "9">>

\* str(n) of a non-negative int, as its decimal digits
RECURSIVE IntStr(_)
IntStr(n) ==
    IF n < 10 THEN <<Digit[n + 1]>> ELSE IntStr(n \div 10) \o <<Digit[(n % 10) + 1]>>

RECURSIVE Join(_, _)
Join(parts, sep) ==
    IF parts = <<>> THEN <<>>
    ELSE IF Len(parts) = 1 THEN parts[1]
    ELSE parts[1] \o sep \o Join(Tail(parts), sep)

----------------------------------------------------------------------------
(* dict, as the sequence of its items [k, v] in insertion order *)

DictHas(d, k) == \E i \in DOMAIN d : d[i].k = k

DictGet(d, k) == d[CHOOSE i \in DOMAIN d : d[i].k = k].v

\* d[k] = v: an existing key keeps its place, a new key goes last
DictSet(d, k, v) ==
    IF DictHas(d, k)
    THEN [i \in DOMAIN d |-> IF d[i].k = k THEN [k |-> k, v |-> v] ELSE d[i]]
    ELSE Append(d, [k |-> k, v |-> v])

\* d.update(other)
RECURSIVE DictUpdate(_, _)
DictUpdate(d, other) ==
    IF other = <<>> THEN d
    ELSE DictUpdate(DictSet(d, other[1].k, other[1].v), Tail(other))

----------------------------------------------------------------------------
(* Header names: a name is the sequence of its '-'-separated words, each   *)
(* word written capitalised (cap) or in lower case.                        *)

W(word, cap) == [w |-> word, cap |-> cap]

UserAgent == <<W("user", TRUE), W("agent", TRUE)>>            \* 'User-Agent'
ContentType == <<W("content", TRUE), W("type", TRUE)>>        \* 'Content-Type'
Authorization == <<W("authorization", TRUE)>>                 \* 'Authorization'

\* str.capitalize(): first character upper case, the rest lower case
Capitalize(name) == [i \in DOMAIN name |-> W(name[i].w, i = 1)]

\* str.lower()
Lower(name) == [i \in DOMAIN name |-> W(name[i].w, FALSE)]

----------------------------------------------------------------------------
(* Arguments.  Every optional argument is [some, type, v]: None is         *)
(* some = FALSE; a str has its text in v, a dict its items, an int nothing. *)

NoneArg == [some |-> FALSE, type |-> "NoneType", v |-> <<>>]
StrArg(text) == [some |-> TRUE, type |-> "str", v |-> text]
DictArg(items) == [some |-> TRUE, type |-> "dict", v |-> items]
IntArg == [some |-> TRUE, type |-> "int", v |-> <<>>]      \* a non-zero int

\* Python truthiness, as `if x:` tests it: None, '' and {} are false
Truthy(x) == x.some /\ (x.type = "int" \/ x.v # <<>>)

Item(k, v) == [k |-> k, v |-> v]

\* A JSON-able value is an int or a str; an `object()` is not
IntVal(repr) == [type |-> "int", repr |-> repr]
StrVal(repr) == [type |-> "str", repr |-> repr]
ObjVal == [type |-> "object", repr |-> "<object>"]

----------------------------------------------------------------------------
(* APIClient.__init__ *)

DefaultTimeout == 30

BaseHeaders ==
    << Item(UserAgent, <<"Python-API-Client/1.0">>),
       Item(ContentType, <<"application/json">>) >>

Bearer(api_key) == <<"Bearer ">> \o api_key.v

\* self.session_headers as __init__ leaves it
InitHeadersNoAuth(api_key) == BaseHeaders
InitHeaders(api_key) ==
    IF Truthy(api_key)
    THEN DictSet(BaseHeaders, Authorization, Bearer(api_key))
    ELSE BaseHeaders

\* base_url.rstrip('/')
NormalizeBaseOne(base_url) == RStripOne(base_url)
NormalizeBase(base_url) == RStrip(base_url)

APIClient(base_url, api_key, timeout) ==
    [ base_url |-> NormalizeBase(base_url),
      api_key |-> api_key,
      timeout |-> timeout,
      session_headers |-> InitHeaders(api_key) ]

----------------------------------------------------------------------------
(* bytes, JSON text and the query string *)

\* bytes: valid UTF-8 holding `text`, or bytes that are no UTF-8 at all
Bytes(text) == [valid |-> TRUE, text |-> text]
BadBytes == [valid |-> FALSE, text |-> <<"\\xff">>]
NoBytes == [valid |-> TRUE, text |-> <<>>]

\* str.encode('utf-8')
Encode(text) == Bytes(text)

Quote(s) == <<"\"", s, "\"">>

ValueText(val) == IF val.type = "str" THEN Quote(val.repr) ELSE <<val.repr>>

Serializable(items) == \A i \in DOMAIN items : items[i].v.type \in {"int", "str"}

\* json.dumps of a dict of serializable values: {"k": v, "k2": v2}
JsonDumps(items) ==
    <<"{">>
    \o Join([i \in DOMAIN items |->
                Quote(items[i].k) \o <<": ">> \o ValueText(items[i].v)], <<", ">>)
    \o <<"}">>

IntToks == {"0", "1", "2", "5", "42"}

\* the items of a JSON object's inside, [ok, items]; ok = FALSE when malformed
RECURSIVE ParseItems(_)
ParseItems(toks) ==
    LET bad == [ok |-> FALSE, items |-> <<>>]
        isStr == Len(toks) >= 7 /\ toks[5] = "\"" /\ toks[7] = "\""
        isInt == Len(toks) >= 5 /\ toks[5] \in IntToks
        used == IF isStr THEN 7 ELSE 5
        val == IF isStr THEN StrVal(toks[6]) ELSE IntVal(toks[5])
        rest == SubSeq(toks, used + 1, Len(toks))
        more == ParseItems(Tail(rest))
    IN  IF ~(Len(toks) >= 5 /\ toks[1] = "\"" /\ toks[3] = "\"" /\ toks[4] = ": ")
        THEN bad
        ELSE IF ~(isStr \/ isInt) THEN bad
        ELSE IF rest = <<>> THEN [ok |-> TRUE, items |-> <<Item(toks[2], val)>>]
        ELSE IF rest[1] # ", " THEN bad
        ELSE IF ~more.ok THEN bad
        ELSE [ok |-> TRUE, items |-> <<Item(toks[2], val)>> \o more.items]

\* json.loads of a non-empty text: [ok, items]; ok = FALSE is JSONDecodeError
JsonLoads(text) ==
    LET inner == SubSeq(text, 2, Len(text) - 1)
    IN  IF ~(Len(text) >= 2 /\ text[1] = "{" /\ text[Len(text)] = "}")
        THEN [ok |-> FALSE, items |-> <<>>]
        ELSE IF inner = <<>> THEN [ok |-> TRUE, items |-> <<>>]
        ELSE ParseItems(inner)

\* urllib.parse.quote_plus(str(x)) on the tokens in use: a space becomes '+'
QuotePlus(tok) == IF tok = "New York" THEN "New+York" ELSE tok

\* urlencode(params) of a dict: k=v&k2=v2
UrlEncode(items) ==
    Join([i \in DOMAIN items |->
            <<QuotePlus(items[i].k), "=", QuotePlus(items[i].v.repr)>>], <<"&">>)

----------------------------------------------------------------------------
(* Exceptions *)

\* the base class of each exception class that can be raised in a call
Parent(cls) ==
    CASE cls = "HTTPError" -> "URLError"
      [] cls = "URLError" -> "OSError"
      [] cls = "TimeoutError" -> "OSError"
      [] cls = "OSError" -> "Exception"
      [] cls = "JSONDecodeError" -> "ValueError"
      [] cls = "UnicodeDecodeError" -> "ValueError"
      [] cls = "ValueError" -> "Exception"
      [] cls = "TypeError" -> "Exception"
      [] cls = "APIException" -> "Exception"
      [] OTHER -> "BaseException"

\* isinstance(e, base) for an exception e of class cls
RECURSIVE IsInstance(_, _)
IsInstance(cls, base) ==
    \/ cls = base
    \/ cls # "BaseException" /\ IsInstance(Parent(cls), base)

\* the except clauses of _make_request, in the order they are written
ExceptClauses == <<"HTTPError", "URLError", "JSONDecodeError", "Exception">>

\* the clause that catches an exception: the first one it is an instance of
Catching(cls) ==
    LET hits == {i \in DOMAIN ExceptClauses : IsInstance(cls, ExceptClauses[i])}
    IN  IF hits = {} THEN "none"
        ELSE ExceptClauses[CHOOSE i \in hits : \A j \in hits : i <= j]

----------------------------------------------------------------------------
(* The transport: what urlopen and the reads of one request come to.       *)
(*   response     a 2xx response with `body`                               *)
(*   HTTPError    a non-2xx status `code` `reason`, with a body to read    *)
(*                when fp                                                  *)
(*   URLError     no connection (refused, DNS, connect timeout)            *)
(*   TimeoutError the socket timed out while the response was read         *)
(* `wire` lists what the server side would answer to a first request and   *)
(* to a second one.                                                        *)

Response(body) ==
    [kind |-> "response", code |-> 200, reason |-> "OK", fp |-> TRUE, body |-> body]
HttpError(code, reason, fp, body) ==
    [kind |-> "HTTPError", code |-> code, reason |-> reason, fp |-> fp, body |-> body]
UrlError(reason) ==
    [kind |-> "URLError", code |-> 0, reason |-> reason, fp |-> FALSE, body |-> NoBytes]
ReadTimeout ==
    [kind |-> "TimeoutError", code |-> 0, reason |-> "timed out", fp |-> FALSE,
     body |-> NoBytes]

\* the requests the try block sends and what the last of them came to
SendWithRetry(wire) ==
    IF wire[1].kind # "response"
    THEN [attempts |-> 2, outcome |-> wire[2]]
    ELSE [attempts |-> 1, outcome |-> wire[1]]
Send(wire) == [attempts |-> 1, outcome |-> wire[1]]

----------------------------------------------------------------------------
(* APIClient._make_request *)

\* urllib.request.Request reads the scheme off the url ('<scheme>:...') and
\* raises ValueError("unknown url type") when there is none
HasScheme(url) ==
    \E i \in 2..Len(url) :
        /\ url[i] = ":"
        /\ \A j \in 1..(i - 1) : url[j] \notin {"/", ":"}

\* Request(headers=...) stores each header under key.capitalize(), in the
\* order of the dict: a later spelling of a name replaces an earlier one
RECURSIVE AddHeaders(_, _)
AddHeaders(stored, hdrs) ==
    IF hdrs = <<>> THEN stored
    ELSE AddHeaders(DictSet(stored, Capitalize(hdrs[1].k), hdrs[1].v), Tail(hdrs))

\* str.upper() of the method names
Upper(method) ==
    CASE method \in {"get", "GET"} -> "GET"
      [] method \in {"post", "POST"} -> "POST"
      [] method \in {"put", "PUT"} -> "PUT"
      [] method \in {"delete", "DELETE"} -> "DELETE"
      [] OTHER -> method

NoRequest ==
    [built |-> FALSE, full_url |-> <<>>, data |-> [some |-> FALSE, bytes |-> NoBytes],
     headers |-> <<>>, method |-> ""]

\* request_headers = self.session_headers.copy(); request_headers.update(headers)
\* gives the call's headers and leaves self.session_headers as it was
MergeHeadersNoCopy(session_headers, headers) ==
    LET merged == IF Truthy(headers) THEN DictUpdate(session_headers, headers.v)
                  ELSE session_headers
    IN  [request_headers |-> merged, session_headers |-> merged]
MergeHeadersBaseWins(session_headers, headers) ==
    [ request_headers |->
          IF Truthy(headers) THEN DictUpdate(headers.v, session_headers)
          ELSE session_headers,
      session_headers |-> session_headers ]
MergeHeaders(session_headers, headers) ==
    [ request_headers |->
          IF Truthy(headers) THEN DictUpdate(session_headers, headers.v)
          ELSE session_headers,
      session_headers |-> session_headers ]

\* request_data: the payload, or None
RequestData(data) ==
    IF Truthy(data)
    THEN [some |-> TRUE, bytes |-> Encode(JsonDumps(data.v))]
    ELSE [some |-> FALSE, bytes |-> NoBytes]

\* the body of an `except` clause: what the call raises
Handle(clause, cls, outcome, detail) ==
    CASE clause = "HTTPError" ->
            IF outcome.fp /\ ~outcome.body.valid
            THEN [exc |-> "UnicodeDecodeError", msg |-> <<"'utf-8' codec can't decode">>]
            ELSE [exc |-> "APIException",
                  msg |-> <<"HTTP ">> \o IntStr(outcome.code)
                          \o <<": ", outcome.reason, ". Body: ">>
                          \o (IF outcome.fp THEN outcome.body.text ELSE <<>>)]
      [] clause = "URLError" ->
            [exc |-> "APIException", msg |-> <<"URL Error: ", outcome.reason>>]
      [] clause = "JSONDecodeError" ->
            [exc |-> "APIException", msg |-> <<"Invalid JSON response: ">> \o detail]
      [] clause = "Exception" ->
            [exc |-> "APIException", msg |-> <<"Request failed: ">> \o detail]
      [] OTHER -> [exc |-> cls, msg |-> detail]

\* the `with urlopen(...)` block: [raised, cls, detail, result]
TryBody(outcome) ==
    LET fine(result) ==
            [raised |-> FALSE, cls |-> "", detail |-> <<>>, result |-> result]
        fails(cls, detail) ==
            [raised |-> TRUE, cls |-> cls, detail |-> detail, result |-> <<>>]
    IN  IF outcome.kind # "response" THEN fails(outcome.kind, <<outcome.reason>>)
        ELSE IF ~outcome.body.valid
        THEN fails("UnicodeDecodeError", <<"'utf-8' codec can't decode">>)
        ELSE IF outcome.body.text = <<>> THEN fine(<<>>)
        ELSE IF JsonLoads(outcome.body.text).ok
        THEN fine(JsonLoads(outcome.body.text).items)
        ELSE fails("JSONDecodeError", <<"Expecting value">>)

\* One call of _make_request on the client `self`: the record of the call
\* and self.session_headers after it.
MakeRequest(self, method, endpoint, params, data, headers, wire) ==
    LET url0 == self.base_url \o <<"/">> \o LStrip(endpoint)
        url == IF Truthy(params) THEN url0 \o <<"?">> \o UrlEncode(params.v) ELSE url0
        merged == MergeHeaders(self.session_headers, headers)
        request_data == RequestData(data)
        req == [built |-> TRUE, full_url |-> url, data |-> request_data,
                headers |-> AddHeaders(<<>>, merged.request_headers),
                method |-> Upper(method)]
        sent == Send(wire)
        body == TryBody(sent.outcome)
        handled == Handle(Catching(body.cls), body.cls, sent.outcome, body.detail)
        args == [method |-> method, endpoint |-> endpoint, params |-> params,
                 data |-> data, headers |-> headers, wire |-> wire]
        ends(url_, hdrs_, req_, attempts_, status_, exc_, msg_, result_) ==
            [args |-> args, url |-> url_, request_headers |-> hdrs_, req |-> req_,
             attempts |-> attempts_, status |-> status_, exc |-> exc_, msg |-> msg_,
             result |-> result_]
    IN  IF Truthy(params) /\ params.type # "dict"
        THEN \* urlencode(params) raises outside the try block
             [ call |-> ends(url0, <<>>, NoRequest, 0, "raised", "TypeError",
                             <<"not a valid non-string sequence or mapping object">>,
                             <<>>),
               session_headers |-> self.session_headers ]
        ELSE IF Truthy(data) /\ ~Serializable(data.v)
        THEN \* json.dumps(data) raises outside the try block
             [ call |-> ends(url, merged.request_headers, NoRequest, 0, "raised",
                             "TypeError", <<"Object is not JSON serializable">>, <<>>),
               session_headers |-> merged.session_headers ]
        ELSE IF ~HasScheme(url)
        THEN \* Request(...) raises outside the try block
             [ call |-> ends(url, merged.request_headers, NoRequest, 0, "raised",
                             "ValueError", <<"unknown url type: ">> \o url, <<>>),
               session_headers |-> merged.session_headers ]
        ELSE IF body.raised
        THEN [ call |-> ends(url, merged.request_headers, req, sent.attempts,
                             "raised", handled.exc, handled.msg, <<>>),
               session_headers |-> merged.session_headers ]
        ELSE [ call |-> ends(url, merged.request_headers, req, sent.attempts,
                             "returned", "", <<>>, body.result),
               session_headers |-> merged.session_headers ]

NoCall ==
    [ args |-> [method |-> "", endpoint |-> <<>>, params |-> NoneArg, data |-> NoneArg,
                headers |-> NoneArg, wire |-> <<>>],
      url |-> <<>>, request_headers |-> <<>>, req |-> NoRequest, attempts |-> 0,
      status |-> "none", exc |-> "", msg |-> <<>>, result |-> <<>> ]

----------------------------------------------------------------------------
(* sample_test.py: add, multiply, divide, Calculator *)

\* numbers: an int n is n/1; a float is the quotient num/den of a true division
IntNum(n) == [type |-> "int", num |-> n, den |-> 1]
FloatNum(num, den) == [type |-> "float", num |-> num, den |-> den]

\* the digits after the point of r/den, r < den, at most n of them
RECURSIVE FracDigits(_, _, _)
FracDigits(r, den, n) ==
    IF r = 0 \/ n = 0 THEN <<>>
    ELSE <<Digit[((r * 10) \div den) + 1]>> \o FracDigits((r * 10) % den, den, n - 1)

\* str(x), as an f-string renders a number: 3, 5.0, 1.5 (a float shows at
\* most 16 digits after the point here)
NumStr(x) ==
    IF x.type = "int" THEN IntStr(x.num)
    ELSE IntStr(x.num \div x.den) \o <<".">>
         \o (IF x.num % x.den = 0 THEN <<"0">>
             ELSE FracDigits(x.num % x.den, x.den, 16))

Returned(value) == [raised |-> FALSE, exc |-> "", msg |-> <<>>, value |-> value]
Raised(exc, msg) == [raised |-> TRUE, exc |-> exc, msg |-> msg, value |-> IntNum(0)]

add(a, b) == Returned(IntNum(a + b))

multiply(a, b) == Returned(IntNum(a * b))

divide(a, b) ==
    IF b = 0 THEN Raised("ValueError", <<"Cannot divide by zero">>)
    ELSE Returned(FloatNum(a, b))

\* the if/elif chain of Calculator.calculate
Compute(operation, a, b) ==
    CASE operation = "add" -> add(a, b)
      [] operation = "multiply" -> multiply(a, b)
      [] operation = "divide" -> divide(a, b)
      [] OTHER -> Raised("ValueError", <<"Unknown operation: ", operation>>)

\* f"{operation}({a}, {b}) = {result}"
Entry(operation, a, b, result) ==
    <<operation, "(">> \o IntStr(a) \o <<", ">> \o IntStr(b) \o <<") = ">>
    \o NumStr(result)

\* self.history after calculate(operation, a, b) that computed `res`: a raise
\* leaves before the append is reached
HistoryAfterAlways(hist, operation, a, b, res) ==
    Append(hist, Entry(operation, a, b, res.value))
HistoryAfterPrepend(hist, operation, a, b, res) ==
    IF res.raised THEN hist
    ELSE <<Entry(operation, a, b, res.value)>> \o hist
HistoryAfter(hist, operation, a, b, res) ==
    IF res.raised THEN hist
    ELSE Append(hist, Entry(operation, a, b, res.value))

----------------------------------------------------------------------------
(* Inputs *)

Slash == <<"/">>
HttpBase == <<"h", ":">>                \* a base_url with a scheme
BareBase == <<"h">>                     \* a base_url without one

PostsPath == <<"/", "p">>

ApiKeys == {NoneArg, StrArg(<<>>), StrArg(<<"abc123">>)}

ParamArgs ==
    {NoneArg, DictArg(<<>>), DictArg(<<Item("userId", IntVal("1"))>>), IntArg}

DataArgs ==
    { NoneArg, DictArg(<<>>),
      DictArg(<<Item("title", StrVal("foo")), Item("userId", IntVal("1"))>>),
      DictArg(<<Item("k", ObjVal)>>) }

HdrNames == {ContentType, Lower(ContentType), Lower(Authorization)}
HdrValues == {<<"text/plain">>, <<"Token x">>}

\* the dicts of at most n headers
HeaderDicts(n) ==
    { d \in UNION {[1..k -> [k : HdrNames, v : HdrValues]] : k \in 0..n} :
        \A i, j \in DOMAIN d : i # j => d[i].k # d[j].k }

HeaderArgs == {NoneArg} \cup {DictArg(d) : d \in HeaderDicts(MaxHdrs)}

TextPlain == DictArg(<<Item(Lower(ContentType), <<"text/plain">>)>>)

JsonBody == Bytes(JsonDumps(<<Item("id", IntVal("1")), Item("title", StrVal("foo"))>>))
MalformedBody == Bytes(<<"{", "oops">>)

Outcomes ==
    { Response(NoBytes), Response(JsonBody), Response(MalformedBody),
      Response(BadBytes),
      HttpError(404, "Not Found", TRUE, Bytes(<<"nope">>)),
      HttpError(404, "Not Found", TRUE, BadBytes),
      HttpError(500, "Internal Server Error", FALSE, NoBytes),
      UrlError("Connection refused"),
      ReadTimeout }

RetryOutcomes == {Response(JsonBody), UrlError("Connection refused")}

Wires == {<<first, second>> : first \in Outcomes, second \in RetryOutcomes}

OkWire == <<Response(JsonBody), Response(JsonBody)>>
DownWire == <<UrlError("Connection refused"), Response(JsonBody)>>

Operations == {"add", "multiply", "divide", "power"}
LeftOperands == {1, 20}
RightOperands == {0, 2}

----------------------------------------------------------------------------
(* Actions: the public methods *)

\* APIClient.get
Get(endpoint, params, headers, wire) ==
    LET r == MakeRequest(client, "GET", endpoint, params, NoneArg, headers, wire)
    IN  /\ call' = r.call
        /\ client' = [client EXCEPT !.session_headers = r.session_headers]
        /\ UNCHANGED <<ctor, calcVars>>

\* APIClient.post
Post(endpoint, data, headers, wire) ==
    LET r == MakeRequest(client, "POST", endpoint, NoneArg, data, headers, wire)
    IN  /\ call' = r.call
        /\ client' = [client EXCEPT !.session_headers = r.session_headers]
        /\ UNCHANGED <<ctor, calcVars>>

\* APIClient.put
Put(endpoint, data, headers, wire) ==
    LET r == MakeRequest(client, "PUT", endpoint, NoneArg, data, headers, wire)
    IN  /\ call' = r.call
        /\ client' = [client EXCEPT !.session_headers = r.session_headers]
        /\ UNCHANGED <<ctor, calcVars>>

\* APIClient.delete
Delete(endpoint, headers, wire) ==
    LET r == MakeRequest(client, "DELETE", endpoint, NoneArg, NoneArg, headers, wire)
    IN  /\ call' = r.call
        /\ client' = [client EXCEPT !.session_headers = r.session_headers]
        /\ UNCHANGED <<ctor, calcVars>>

\* Calculator.calculate
Calculate(operation, a, b) ==
    LET res == Compute(operation, a, b)
    IN  /\ Len(calcs) < MaxCalls
        /\ history' = HistoryAfter(history, operation, a, b, res)
        /\ calcs' = Append(calcs, [operation |-> operation, a |-> a, b |-> b,
                                   raised |-> res.raised])
        /\ lastcalc' = [operation |-> operation, a |-> a, b |-> b,
                        status |-> IF res.raised THEN "raised" ELSE "returned",
                        exc |-> res.exc, result |-> res.value, pre |-> history]
        /\ UNCHANGED clientVars

----------------------------------------------------------------------------
(* Specifications *)

\* Calculator()
NewCalculator ==
    /\ history = <<>>
    /\ calcs = <<>>
    /\ lastcalc = [operation |-> "", a |-> 0, b |-> 0, status |-> "none", exc |-> "",
                   result |-> IntNum(0), pre |-> <<>>]

\* APIClient(base_url, api_key), no call made yet
Constructed(base_url, api_key) ==
    /\ ctor = [base_url |-> base_url, api_key |-> api_key, timeout |-> DefaultTimeout,
               made |-> APIClient(base_url, api_key, DefaultTimeout)]
    /\ client = APIClient(base_url, api_key, DefaultTimeout)
    /\ call = NoCall

\* The request pipeline: every way a call can end
Init ==
    /\ \E base_url \in {HttpBase, BareBase}, api_key \in {NoneArg, StrArg(<<"abc123">>)} :
           Constructed(base_url, api_key)
    /\ NewCalculator

Next ==
    \/ \E params \in ParamArgs, headers \in {NoneArg, TextPlain}, wire \in Wires :
           Get(PostsPath, params, headers, wire)
    \/ \E data \in DataArgs, headers \in {NoneArg, TextPlain}, wire \in Wires :
           Post(PostsPath, data, headers, wire)
    \/ \E data \in DataArgs, headers \in {NoneArg, TextPlain}, wire \in Wires :
           Put(PostsPath, data, headers, wire)
    \/ \E headers \in {NoneArg, TextPlain}, wire \in Wires :
           Delete(PostsPath, headers, wire)

Spec == Init /\ [][Next]_vars

\* Addresses: every base_url and endpoint
InitUrl ==
    /\ \E base_url \in Strs({"h", ":", "/"}, MaxBase) : Constructed(base_url, NoneArg)
    /\ NewCalculator

NextUrl ==
    \E endpoint \in Strs({"/", "p"}, MaxPath) :
        \/ \E params \in {NoneArg, DictArg(<<Item("userId", IntVal("1"))>>)} :
               Get(endpoint, params, NoneArg, OkWire)
        \/ Post(endpoint, NoneArg, NoneArg, OkWire)
        \/ Put(endpoint, NoneArg, NoneArg, OkWire)
        \/ Delete(endpoint, NoneArg, OkWire)

SpecUrl == InitUrl /\ [][NextUrl]_vars

\* Headers: every credential and every headers argument
InitHdr ==
    /\ \E api_key \in ApiKeys : Constructed(HttpBase \o Slash, api_key)
    /\ NewCalculator

NextHdr ==
    \E headers \in HeaderArgs, wire \in {OkWire, DownWire} :
        \/ Get(PostsPath, NoneArg, headers, wire)
        \/ Post(PostsPath, NoneArg, headers, wire)
        \/ Put(PostsPath, NoneArg, headers, wire)
        \/ Delete(PostsPath, headers, wire)

SpecHdr == InitHdr /\ [][NextHdr]_vars

\* The calculator
InitCalc ==
    /\ Constructed(HttpBase, NoneArg)
    /\ NewCalculator

NextCalc ==
    \E operation \in Operations, a \in LeftOperands, b \in RightOperands :
        Calculate(operation, a, b)

SpecCalc == InitCalc /\ [][NextCalc]_vars

----------------------------------------------------------------------------
(* Claims about APIClient *)

Made == call.status # "none"

\* a transport outcome that is a failure of the request: a status error, no
\* connection, a timeout, or a body that cannot be decoded or parsed
Failed(outcome) ==
    \/ outcome.kind # "response"
    \/ ~outcome.body.valid
    \/ outcome.body = MalformedBody

\* C1: every failure of a dispatch call reaches the caller as APIException
\* and as no other exception type.
C1_OnlyAPIException == call.status = "raised" => call.exc = "APIException"

\* C2: after any sequence of calls, with any header overrides, succeeding or
\* failing, the client's configuration is what construction made it, and the
\* headers of a call without overrides are the construction-time set.
C2_ConfigKept ==
    /\ client = ctor.made
    /\ client.session_headers = InitHeaders(ctor.api_key)
    /\ (Made /\ ~Truthy(call.args.headers))
          => call.request_headers = ctor.made.session_headers

C2_Witness ==
    /\ call.status = "raised"
    /\ Truthy(call.args.headers)
    /\ call.request_headers # client.session_headers

Sent(name) == {i \in DOMAIN call.req.headers :
                  Lower(call.req.headers[i].k) = Lower(name)}

\* the entries of the call's headers argument that name `name`
Supplied(name) ==
    IF Truthy(call.args.headers)
    THEN {i \in DOMAIN call.args.headers.v :
             Lower(call.args.headers.v[i].k) = Lower(name)}
    ELSE {}

\* C4, as stated: with a credential c every call's headers include
\* Authorization = "Bearer " + c; with none there is no Authorization header
\* unless the call's headers argument supplies one.
C4_BearerAlways ==
    call.req.built =>
        /\ Truthy(ctor.api_key)
              => /\ DictHas(call.req.headers, Authorization)
                 /\ DictGet(call.req.headers, Authorization) = Bearer(ctor.api_key)
        /\ (~Truthy(ctor.api_key) /\ Supplied(Authorization) = {})
              => Sent(Authorization) = {}

\* C4, amended: with a credential c the headers of every call whose headers
\* argument names no authorization header include Authorization =
\* "Bearer " + c; with none there is no Authorization header unless the
\* call's headers argument supplies one.
C4_BearerUnlessOverridden ==
    call.req.built =>
        /\ (Truthy(ctor.api_key) /\ Supplied(Authorization) = {})
              => /\ DictHas(call.req.headers, Authorization)
                 /\ DictGet(call.req.headers, Authorization) = Bearer(ctor.api_key)
                 /\ Cardinality(Sent(Authorization)) = 1
        /\ (~Truthy(ctor.api_key) /\ Supplied(Authorization) = {})
              => Sent(Authorization) = {}

C4_Witness ==
    /\ call.req.built
    /\ ctor.api_key = StrArg(<<"abc123">>)
    /\ Supplied(ContentType) # {}
    /\ Supplied(Authorization) = {}
    /\ DictGet(call.req.headers, Authorization) = <<"Bearer ", "abc123">>

EndsWithSlash(s) == s # <<>> /\ s[Len(s)] = "/"
Slashes(n) == [i \in 1..n |-> "/"]

\* C5: construction stores the base without its trailing slashes, and the
\* address of a call is the stored base, one slash, and the path without its
\* leading slashes.
C5_OneSlash ==
    /\ ~EndsWithSlash(client.base_url)
    /\ \E n \in 0..Len(ctor.base_url) :
           ctor.base_url = client.base_url \o Slashes(n)
    /\ Made =>
          \E n \in 0..Len(call.args.endpoint) :
              LET rest == SubSeq(call.args.endpoint, n + 1, Len(call.args.endpoint))
                  path == client.base_url \o <<"/">> \o rest
                  query == SubSeq(call.url, Len(path) + 1, Len(call.url))
              IN  /\ call.args.endpoint = Slashes(n) \o rest
                  /\ ~(rest # <<>> /\ rest[1] = "/")
                  /\ Len(call.url) >= Len(path)
                  /\ SubSeq(call.url, 1, Len(path)) = path
                  /\ query = <<>> \/ query[1] = "?"

C5_Witness ==
    /\ ctor.base_url = <<"h", ":", "/", "/">>
    /\ client.base_url = <<"h", ":">>
    /\ call.args.endpoint = <<"/", "p">>
    /\ call.status = "returned"
    /\ call.req.full_url = <<"h", ":", "/", "p">>

\* C6: whenever a body is supplied, an empty mapping included, the request
\* carries it serialized as its payload; there is no payload only when no
\* body is supplied.
C6_BodyAlwaysSent ==
    call.req.built =>
        /\ call.req.data.some <=> call.args.data.some
        /\ call.args.data.some
              => call.req.data.bytes = Bytes(JsonDumps(call.args.data.v))

\* C8: a non-2xx status raises APIException with the message
\* "HTTP <code>: <reason>. Body: <body>", never the "URL Error" message and
\* never a result.
C8_StatusMessage ==
    (call.attempts >= 1 /\ call.args.wire[1].kind = "HTTPError") =>
        /\ call.status = "raised"
        /\ call.exc = "APIException"
        /\ Len(call.msg) >= 5
        /\ call.msg[1] = "HTTP "
        /\ \E n \in 1..3 :
              /\ SubSeq(call.msg, 2, n + 1) = IntStr(call.args.wire[1].code)
              /\ SubSeq(call.msg, n + 2, n + 4)
                    = <<": ", call.args.wire[1].reason, ". Body: ">>

\* C9: per-call headers override same-named base headers: every base header
\* is sent once, with a value the caller gave when the call's headers name
\* it (the caller's only value when the caller names it once) and with its
\* base value otherwise.
C9_CallerWins ==
    call.req.built =>
        \A b \in DOMAIN client.session_headers :
            LET name == client.session_headers[b].k
                given == Supplied(name)
            IN  /\ Cardinality(Sent(name)) = 1
                /\ \A i \in Sent(name) :
                      IF given = {}
                      THEN call.req.headers[i].v = client.session_headers[b].v
                      ELSE \E g \in given :
                              call.req.headers[i].v = call.args.headers.v[g].v

C9_Witness ==
    /\ call.req.built
    /\ call.args.headers = TextPlain
    /\ \A i \in Sent(ContentType) : call.req.headers[i].v = <<"text/plain">>
    /\ \A i \in Sent(UserAgent) : call.req.headers[i].v = <<"Python-API-Client/1.0">>
    /\ Sent(ContentType) # {} /\ Sent(UserAgent) # {}

----------------------------------------------------------------------------
(* Claims about Calculator *)

ReturnedCalls == SelectSeq(calcs, LAMBDA c : ~c.raised)

\* C7, as stated: after n calculate calls history holds exactly n entries.
C7_EveryCallLogged == Len(history) = Len(calcs)

\* C7, amended: after any sequence of calculate calls of which n returned a
\* result, history holds exactly n entries, the i-th being the string
\* "<operation>(<a>, <b>) = <result>" of the i-th call that returned; a call
\* that returns appends one entry at the end and no call removes, reorders
\* or rewrites an entry.
C7_ReturnedCallsLogged ==
    /\ Len(history) = Len(ReturnedCalls)
    /\ \A i \in DOMAIN history :
          LET c == ReturnedCalls[i]
          IN  history[i] = Entry(c.operation, c.a, c.b, Compute(c.operation, c.a, c.b).value)
    /\ lastcalc.status = "returned"
          => /\ Len(history) = Len(lastcalc.pre) + 1
             /\ SubSeq(history, 1, Len(lastcalc.pre)) = lastcalc.pre
             /\ history[Len(history)][1] = lastcalc.operation
    /\ lastcalc.status = "raised" => history = lastcalc.pre

C7_Witness ==
    /\ Len(calcs) = 3
    /\ history = << <<"add", "(", "1", ", ", "2", ") = ", "3">>,
                    <<"divide", "(", "2", "0", ", ", "2", ") = ", "1", "0", ".", "0">> >>
    /\ calcs[2].raised

\* C10: a calculate call that fails (divide by zero, or an unknown operation)
\* raises ValueError and leaves history as it was, so history is as long as
\* the number of calls that returned.
C10_FailureLogsNothing ==
    /\ lastcalc.status # "none" =>
          (lastcalc.status = "raised"
              <=> \/ lastcalc.operation = "divide" /\ lastcalc.b = 0
                  \/ lastcalc.operation \notin {"add", "multiply", "divide"})
    /\ lastcalc.status = "raised"
          => lastcalc.exc = "ValueError" /\ history = lastcalc.pre
    /\ Len(history) = Cardinality({i \in DOMAIN calcs : ~calcs[i].raised})

C10_Witness ==
    /\ lastcalc.status = "raised"
    /\ lastcalc.operation = "divide"
    /\ lastcalc.b = 0
    /\ Len(history) = 1
    /\ \E i \in DOMAIN calcs : calcs[i].raised /\ calcs[i].operation = "power"

====
